---------------------------- MODULE Spec2Model ----------------------------
(***************************************************************************)
(* A model of lib/ws2811-pcm.c: the WS281x driver that encodes a pixel     *)
(* buffer into a PCM bit stream and ships it with one DMA channel.         *)
(*                                                                         *)
(* The caller (one thread) runs ws2811_init, then any sequence of          *)
(* ws2811_render / ws2811_wait, then ws2811_fini.  The DMA engine, the PCM *)
(* FIFO and the PCM clock run beside it and change the registers the code  *)
(* polls.  A 32-bit memory word is the set of its bit numbers (0..31) that *)
(* are 1, so the word 0 is {} and 0xFFFFFFFF is 0..31.                     *)
(***************************************************************************)
EXTENDS Integers, Sequences, FiniteSets, TLC

VARIABLES
    pc,         \* where the caller is: a label inside the running function
    ctx,        \* the API function that is running ("none" between calls)
    ret,        \* return value of the API function that returned last
    lastOp,     \* the API function that returned last; both are cleared
                \* when the next call begins
    count,      \* ws2811->channel->count
    freq,       \* ws2811->freq
    strip_type, \* ws2811->channel->strip_type
    brightness, \* ws2811->channel->brightness
    invert,     \* ws2811->channel->invert
    leds,       \* ws2811->channel->leds[0..count-1] as a sequence
    heap,       \* live malloc blocks: subset of {"device", "leds"}
    mbox,       \* device->mbox: handle, mem_ref, bus_addr, size, virt_addr
    vc,         \* the allocation collaborator: open handles, allocated and
                \* locked memory references, live mappings of the buffer
    maps,       \* register windows mapped into the process
    dma_cb_addr,\* device->dma_cb_addr, the descriptor's cached bus address
    pcm_raw,    \* the DMA buffer: word index -> word; indices wordcount
                \* and wordcount + 1 are the two words right behind the
                \* sized buffer
    dma_cb,     \* the DMA control block (descriptor) in the allocation
    dma,        \* DMA channel registers: cs.ACTIVE, cs.ERROR, conblk_ad
    pcm,        \* PCM registers: cs.EN, cs.TXON, cs.DMAEN, cs.TXE
    clk,        \* clock manager: ctl.ENAB, ctl.BUSY, div
    delays,     \* usleep(10) calls made by the running ws2811_wait (saturating)
    waitEntry,  \* history: cs.ACTIVE and cs.ERROR when ws2811_wait was entered
    started,    \* history: the running render call has set cs.ACTIVE
                \* (the three are cleared when the call returns)
    fault,      \* history: which step made ws2811_init fail ("none" if not)
    stopSeq,    \* history: "done" once stop_pcm has run to its end and
                \* nothing was enabled since, "used" from the first
                \* configuration write that follows it, else "none"
    regs,       \* configuration registers of the clock manager and the PCM
                \* that this process has written
    calls,      \* history: the release calls made to the allocation
                \* collaborator, in order, each with its argument
    calc        \* work area of the pure-function specifications

vars == <<pc, ctx, ret, lastOp, count, freq, strip_type, brightness, invert,
          leds, heap, mbox, vc, maps, dma_cb_addr, pcm_raw, dma_cb,
          dma,
          pcm, clk, delays, waitEntry, started, fault, stopSeq, regs, calls, calc>>

---------------------------------------------------------------------------
(* Bounds of the model. *)

MaxLeds == 2          \* channel->count ranges over 0..MaxLeds
MaxPolls == 1         \* the delay counter saturates here
MaxSizeLeds == 40     \* LED counts of the sizing specification
MaxFreqSteps == 52    \* tick rates of the sizing specification
MaxReachLeds == 15    \* LED counts of the write-reach specification

(* Program constants. *)

OSC_FREQ == 19200000
LED_RESET_uS == 55
SYMBOL_HIGH == 6
SYMBOL_LOW == 4
PAGE_SIZE == 4096
DMA_CB_SIZE == 32
WS2811_STRIP_RGB == 1050624
ALL_ONES == -1        \* stands for (uint32_t) ~0UL, the mem_lock failure value

---------------------------------------------------------------------------
(* 32-bit unsigned arithmetic, kept in two 16-bit limbs so that no         *)
(* intermediate value leaves the checker's integer range.                  *)

Limb == 65536

\* x as <<high limb, low limb>>, for 0 <= x < 2^31
ToU32(x) == <<x \div Limb, x % Limb>>

\* (u * c) mod 2^32 for a small constant c
MulU32(u, c) ==
    LET lo == u[2] * c
        hi == u[1] * c + (lo \div Limb)
    IN  <<hi % Limb, lo % Limb>>

\* u / d (unsigned division, result below 2^31) for 0 < d < 2^23
DivU32(u, d) ==
    LET t  == u[1] * 256 + (u[2] \div 256)     \* the top 24 bits
        qt == t \div d
        rt == t % d
    IN  qt * 256 + ((rt * 256 + (u[2] % 256)) \div d)

---------------------------------------------------------------------------
(* Buffer sizing: LED_BIT_COUNT and PCM_BYTE_COUNT.                        *)

\* (leds * 3 * 8 * 3) + ((LED_RESET_uS * (freq * 3)) / 1000000)
LED_BIT_COUNT(n, f) ==
    (n * 3 * 8 * 3) + DivU32(MulU32(MulU32(ToU32(f), 3), LED_RESET_uS), 1000000)

\* x & ~0x7
AndNot7_Sixteen(x) == x - (x % 16)

AndNot7(x) == x - (x % 8)

PCM_BYTE_COUNT_OnePad(n, f) == (AndNot7(LED_BIT_COUNT(n, f) \div 8)) + 4

\* ((((LED_BIT_COUNT(leds, freq) >> 3) & ~0x7) + 4) + 4)
PCM_BYTE_COUNT(n, f) == ((AndNot7(LED_BIT_COUNT(n, f) \div 8)) + 4) + 4

\* PCM_BYTE_COUNT(maxcount, freq) / sizeof(uint32_t)
WordCount(n, f) == PCM_BYTE_COUNT(n, f) \div 4

---------------------------------------------------------------------------
(* The gamma table (gamma.h): 256 entries, byte to byte, here the          *)
(* quadratic curve.                                                        *)

ws281x_gamma(x) == (x * x) \div 255

---------------------------------------------------------------------------
(* ws2811_render, lines 579..627: the encoder.                             *)

Scale_Byte(b) == ((b % 256) + 1) % 256

\* scale = (channel->brightness & 0xff) + 1
Scale(b) == (b % 256) + 1

\* (value * scale) >> 8, the index into the gamma table
Scaled(v, b) == (v * Scale(b)) \div 256

\* (channel->strip_type >> 16) & 0xff and its two siblings
ShiftOf(st, j) ==
    CASE j = 1 -> (st \div 65536) % 256
      [] j = 2 -> (st \div 256) % 256
      [] j = 3 -> st % 256

\* 1 << n, for the shift amounts a strip type holds (0, 8, 16, 24)
Pow2(n) == 2 ^ n

\* color[j]: ws281x_gamma[(((channel->leds[i] >> shift) & 0xff) * scale) >> 8]
ColorByte(led, st, b, j) ==
    ws281x_gamma(Scaled((led \div Pow2(ShiftOf(st, j))) % 256, b))

\* bit k of a byte
BitOf(byte, k) == (byte \div (2 ^ k)) % 2

\* lines 603..607: the symbol of bit k, swapped under channel->invert
SymbolFor(byte, k, inv) ==
    IF BitOf(byte, k) = 1
    THEN (IF inv # 0 THEN SYMBOL_LOW ELSE SYMBOL_HIGH)
    ELSE (IF inv # 0 THEN SYMBOL_HIGH ELSE SYMBOL_LOW)

WriteBit_EarlyAdvance(e, one) ==
    LET w   == e.buf[e.wordpos]
        clr == w \ {e.bitpos}
        new == IF one THEN clr \cup {e.bitpos} ELSE clr
    IN  [buf     |-> [e.buf EXCEPT ![e.wordpos] = new],
         wordpos |-> IF e.bitpos - 1 <= 0 THEN e.wordpos + 1 ELSE e.wordpos,
         bitpos  |-> IF e.bitpos - 1 <= 0 THEN 31 ELSE e.bitpos - 1]

\* lines 611..623: clear the bit, set it if the symbol has it, step on
WriteBit(e, one) ==
    LET w   == e.buf[e.wordpos]
        clr == w \ {e.bitpos}
        new == IF one THEN clr \cup {e.bitpos} ELSE clr
    IN  [buf     |-> [e.buf EXCEPT ![e.wordpos] = new],
         wordpos |-> IF e.bitpos - 1 < 0 THEN e.wordpos + 1 ELSE e.wordpos,
         bitpos  |-> IF e.bitpos - 1 < 0 THEN 31 ELSE e.bitpos - 1]

\* Each loop also looks at the position it is handed (never negative): the
\* look makes the checker compute a round's result before the next round.

\* for (l = 2; l >= 0; l--)
RECURSIVE SymbolLoop(_, _, _)
SymbolLoop(e, symbol, l) ==
    IF l < 0 \/ e.bitpos < 0 THEN e
    ELSE SymbolLoop(WriteBit(e, BitOf(symbol, l) = 1), symbol, l - 1)

\* for (k = 7; k >= 0; k--)
RECURSIVE BitLoop(_, _, _, _)
BitLoop(e, byte, k, inv) ==
    IF k < 0 \/ e.bitpos < 0 THEN e
    ELSE BitLoop(SymbolLoop(e, SymbolFor(byte, k, inv), 2), byte, k - 1, inv)

\* for (j = 0; j < ARRAY_SIZE(color); j++)
RECURSIVE ColorLoop(_, _, _, _, _, _)
ColorLoop(e, led, st, b, inv, j) ==
    IF j > 3 \/ e.bitpos < 0 THEN e
    ELSE ColorLoop(BitLoop(e, ColorByte(led, st, b, j), 7, inv),
                   led, st, b, inv, j + 1)

\* for (i = 0; i < channel->count; i++)
RECURSIVE LedLoop(_, _, _, _, _, _, _)
LedLoop(e, ls, n, st, b, inv, i) ==
    IF i > n \/ e.bitpos < 0 THEN e
    ELSE LedLoop(ColorLoop(e, ls[i], st, b, inv, 1), ls, n, st, b, inv, i + 1)

\* the buffer after the encoding loop, started at wordpos 0, bitpos 31
Encode(buf, ls, n, st, b, inv) ==
    LedLoop([buf |-> buf, wordpos |-> 0, bitpos |-> 31], ls, n, st, b, inv, 1).buf

---------------------------------------------------------------------------
(* The state before ws2811_init and the values the caller and the          *)
(* collaborators can hand in.                                              *)

cfgVars  == <<count, freq, strip_type, invert>>
chanVars == <<brightness, leds>>
resVars  == <<heap, mbox, vc, maps, dma_cb_addr, dma_cb>>
hwVars   == <<dma, pcm, clk>>
histVars == <<delays, waitEntry, started>>
traceVars == <<stopSeq, regs, calls>>

Freqs      == {800000}
StripTypes == {0, 528384}                 \* unset (-> RGB), and GRB 0x081000
Colors     == {16711680, 98559}           \* 0xFF0000, 0x0180FF
Brights    == {64, 255}
Handles    == {-1, 3}                     \* mbox_open(): -1 is failure
MemRefs    == {0, 5}           \* mem_alloc(): 0 is failure
BusAddrs   == {ALL_ONES, 1593835520}      \* mem_lock(): ~0 is failure
Garbage    == {{}, 0 .. 31}               \* a word of fresh memory
Windows    == <<"dma", "pcm", "gpio", "cm_pcm">>   \* in mapping order

NoMbox  == [handle |-> -1, mem_ref |-> 0, bus_addr |-> 0, size |-> 0,
            virt_addr |-> "none"]
NoVc    == [open |-> {}, alloc |-> {}, locked |-> {}, mapped |-> FALSE]
NoCb    == [ti |-> "none", source_ad |-> 0, dest_ad |-> "none", txfr_len |-> 0,
            stride |-> 0, nextconbk |-> 0]
DmaOff  == [active |-> FALSE, error |-> FALSE, conblk_ad |-> 0]
PcmOff  == [en |-> FALSE, txon |-> FALSE, dmaen |-> FALSE, txe |-> TRUE]
ClkOff  == [enab |-> FALSE, busy |-> FALSE, divi |-> 0]
\* the PCM and its clock as an earlier run of the driver can have left them
\* ("in case already running", lines 221..225)
PcmLive == [en |-> TRUE, txon |-> TRUE, dmaen |-> TRUE, txe |-> TRUE]
ClkLive == [enab |-> TRUE, busy |-> TRUE, divi |-> 6]
NoCalc  == [op |-> "none"]

InitDevice ==
    /\ pc = "start" /\ ctx = "none" /\ ret = 0 /\ lastOp = "none"
    /\ count \in 0 .. MaxLeds
    /\ freq \in Freqs
    /\ strip_type \in StripTypes
    /\ invert \in {0, 1}
    /\ brightness = 255 /\ leds = <<>>
    /\ heap = {} /\ mbox = NoMbox /\ vc = NoVc /\ maps = {}
    /\ dma_cb_addr = 0 /\ dma_cb = NoCb /\ pcm_raw = <<>>
    /\ dma = DmaOff
    /\ \E live \in BOOLEAN :
        /\ pcm = IF live THEN PcmLive ELSE PcmOff
        /\ clk = IF live THEN ClkLive ELSE ClkOff
    /\ delays = 0 /\ waitEntry = [active |-> FALSE, error |-> FALSE]
    /\ started = FALSE /\ fault = "none"
    /\ stopSeq = "none" /\ regs = {} /\ calls = <<>>

Init == InitDevice /\ calc = NoCalc

---------------------------------------------------------------------------
(* The allocation collaborator (mailbox.h) and ws2811_cleanup.             *)

\* mem_free(handle, ref): releases ref if it is an allocated reference
mem_free(v, ref) == [v EXCEPT !.alloc = @ \ {ref}, !.locked = @ \ {ref}]

\* mem_unlock(handle, ref)
mem_unlock(v, ref) == [v EXCEPT !.locked = @ \ {ref}]

\* mbox_close(handle)
mbox_close(v, h) == [v EXCEPT !.open = @ \ {h}]

\* unmapmem(virt_addr, size) of the buffer mapping
unmapmem(v) == [v EXCEPT !.mapped = FALSE]

\* size of the allocation: PCM_BYTE_COUNT + sizeof(dma_cb_t), page rounded
MboxSize(n, f) ==
    LET sz == PCM_BYTE_COUNT(n, f) + DMA_CB_SIZE + (PAGE_SIZE - 1)
    IN  sz - (sz % PAGE_SIZE)

\* ws2811_cleanup: free leds, release the mailbox allocation if
\* mbox.handle != -1, free the device record
ws2811_cleanup(h, v, m) ==
    [heap |-> (h \ {"leds"}) \ {"device"},
     vc   |-> IF m.handle # -1
              THEN mbox_close(mem_free(mem_unlock(unmapmem(v), m.mem_ref),
                                       m.mem_ref), m.handle)
              ELSE v,
     mbox |-> NoMbox,
     made |-> IF m.handle # -1
              THEN <<[op |-> "unmapmem", arg |-> m.size],
                     [op |-> "mem_unlock", arg |-> m.mem_ref],
                     [op |-> "mem_free", arg |-> m.mem_ref],
                     [op |-> "mbox_close", arg |-> m.handle]>>
              ELSE <<>>]

---------------------------------------------------------------------------
(* ws2811_init, lines 419..520.  One action per way it can end; the        *)
(* collaborators' answers are the inputs.  The hardware is idle here: no   *)
(* transfer exists before the first render.                                *)

InitReturn(label) ==
    /\ pc' = "init_failed" /\ ctx' = "none" /\ ret' = -1 /\ lastOp' = "init"
    /\ fault' = label
    /\ UNCHANGED <<cfgVars, chanVars, dma_cb_addr, dma_cb, pcm_raw, hwVars,
                   histVars, calc, stopSeq, regs>>

\* device->mbox after lines 439..463
MboxOf(h, r, b, virt) ==
    [handle |-> h, mem_ref |-> r, bus_addr |-> b,
     size |-> MboxSize(count, freq), virt_addr |-> virt]

\* the collaborator after mbox_open, mem_alloc, mem_lock and mapmem succeeded
VcOf(h, r, virt) ==
    [open |-> {h}, alloc |-> {r}, locked |-> {r}, mapped |-> virt = "mapped"]

\* lines 424..428: rpi_hw_detect() returned NULL
InitFailDetect ==
    /\ pc = "start"
    /\ InitReturn("detect")
    /\ UNCHANGED <<calls, heap, mbox, vc, maps>>

\* lines 431..435: malloc of the device record returned NULL
InitFailMalloc ==
    /\ pc = "start"
    /\ InitReturn("malloc")
    /\ UNCHANGED <<calls, heap, mbox, vc, maps>>

\* lines 444..448: mbox_open() returned -1
InitFailMboxOpen ==
    /\ pc = "start"
    /\ heap' = {"device"}
    /\ mbox' = [NoMbox EXCEPT !.size = MboxSize(count, freq)]
    /\ InitReturn("mbox_open")
    /\ UNCHANGED <<calls, vc, maps>>

\* lines 450..455: mem_alloc() returned 0
InitFailMemAlloc ==
    /\ pc = "start"
    /\ \E h \in Handles \ {-1} :
        /\ heap' = {"device"}
        /\ mbox' = [NoMbox EXCEPT !.size = MboxSize(count, freq), !.handle = h]
        /\ vc' = [vc EXCEPT !.open = {h}]
    /\ InitReturn("mem_alloc")
    /\ UNCHANGED <<calls, maps>>

\* lines 457..462: mem_lock() returned ~0; mem_free(handle, mbox.size)
InitFailMemLock ==
    /\ pc = "start"
    /\ \E h \in Handles \ {-1}, r \in MemRefs \ {0} :
        /\ heap' = {"device"}
        /\ mbox' = MboxOf(h, r, ALL_ONES, "none")
        /\ vc' = mem_free([vc EXCEPT !.open = {h}, !.alloc = {r}],
                          MboxSize(count, freq))
    /\ calls' = Append(calls, [op |-> "mem_free", arg |-> MboxSize(count, freq)])
    /\ InitReturn("mem_lock")
    /\ UNCHANGED maps

\* lines 473..476: malloc of the LED buffer returned NULL; goto err
InitFailLeds ==
    /\ pc = "start"
    /\ \E h \in Handles \ {-1}, r \in MemRefs \ {0}, b \in BusAddrs \ {ALL_ONES},
          virt \in {"mapped", "NULL"} :
        LET c == ws2811_cleanup({"device"}, VcOf(h, r, virt), MboxOf(h, r, b, virt))
        IN  /\ heap' = c.heap /\ vc' = c.vc /\ mbox' = c.mbox
            /\ calls' = calls \o c.made
    /\ InitReturn("leds")
    /\ UNCHANGED maps

\* line 463 returned NULL and lines 484..489 write through the pointer:
\* the stores go to page 0 and the process is killed
InitCrashNullMap ==
    /\ pc = "start"
    /\ \E h \in Handles \ {-1}, r \in MemRefs \ {0}, b \in BusAddrs \ {ALL_ONES} :
        /\ heap' = {"device", "leds"}
        /\ mbox' = MboxOf(h, r, b, "NULL")
        /\ vc' = VcOf(h, r, "NULL")
    /\ leds' = [i \in 1 .. count |-> 0]
    /\ strip_type' = IF strip_type = 0 THEN WS2811_STRIP_RGB ELSE strip_type
    /\ pc' = "crashed" /\ fault' = "mapmem"
    /\ UNCHANGED <<ctx, ret, lastOp, count, freq, invert, brightness,
                   maps, dma_cb_addr, dma_cb, pcm_raw, hwVars, histVars, calc, traceVars>>

\* the windows mapped when mapmem fails for window k+1 (k = 0: the first
\* mapmem, or dmanum_to_offset, failed)
FirstWindows(k) == {Windows[i] : i \in 1 .. k}

\* pcm_raw_init, lines 359..369: wordcount times pcm_raw[wordcount] = 0
pcm_raw_init(buf, wc) == IF wc > 0 THEN [buf EXCEPT ![wc] = {}] ELSE buf

\* lines 494..498: map_registers failed after k windows; goto err
InitFailMap ==
    /\ pc = "start"
    /\ \E h \in Handles \ {-1}, r \in MemRefs \ {0}, b \in BusAddrs \ {ALL_ONES},
          k \in 0 .. 3 :
        LET c == ws2811_cleanup({"device", "leds"}, VcOf(h, r, "mapped"),
                                MboxOf(h, r, b, "mapped"))
        IN  /\ heap' = c.heap /\ vc' = c.vc /\ mbox' = c.mbox
            /\ calls' = calls \o c.made
            /\ maps' = FirstWindows(k)
    /\ leds' = <<>>
    /\ strip_type' = IF strip_type = 0 THEN WS2811_STRIP_RGB ELSE strip_type
    /\ pc' = "init_failed" /\ ctx' = "none" /\ ret' = -1 /\ lastOp' = "init"
    /\ fault' = "map_registers"
    /\ UNCHANGED <<count, freq, invert, brightness, dma_cb_addr,
                   dma_cb, pcm_raw, hwVars, histVars, calc, stopSeq, regs>>

\* lines 500..505: gpio_init failed; unmap_registers, goto err
InitFailGpio ==
    /\ pc = "start"
    /\ \E h \in Handles \ {-1}, r \in MemRefs \ {0}, b \in BusAddrs \ {ALL_ONES} :
        LET c == ws2811_cleanup({"device", "leds"}, VcOf(h, r, "mapped"),
                                MboxOf(h, r, b, "mapped"))
        IN  /\ heap' = c.heap /\ vc' = c.vc /\ mbox' = c.mbox
            /\ calls' = calls \o c.made
    /\ maps' = {}
    /\ leds' = <<>>
    /\ strip_type' = IF strip_type = 0 THEN WS2811_STRIP_RGB ELSE strip_type
    /\ pc' = "init_failed" /\ ctx' = "none" /\ ret' = -1 /\ lastOp' = "init"
    /\ fault' = "gpio_init"
    /\ UNCHANGED <<count, freq, invert, brightness, dma_cb_addr,
                   dma_cb, pcm_raw, hwVars, histVars, calc, stopSeq, regs>>

DescriptorOf_AtBase(b) ==
    [ti |-> "NO_WIDE_BURSTS|WAIT_RESP|DEST_DREQ|PERMAP(2)|SRC_INC",
     source_ad |-> b, dest_ad |-> "pcm.fifo",
     txfr_len |-> PCM_BYTE_COUNT(count, freq), stride |-> 0, nextconbk |-> 0]

\* the descriptor after setup_pcm, lines 276..288
DescriptorOf(b) ==
    [ti |-> "NO_WIDE_BURSTS|WAIT_RESP|DEST_DREQ|PERMAP(2)|SRC_INC",
     source_ad |-> b + DMA_CB_SIZE, dest_ad |-> "pcm.fifo",
     txfr_len |-> PCM_BYTE_COUNT(count, freq), stride |-> 0, nextconbk |-> 0]

\* lines 424..505 without a failure: everything is acquired, the buffer is
\* run through pcm_raw_init, the descriptor is cleared, the four windows are
\* mapped and the pin is set; setup_pcm is entered
InitSetup ==
    /\ pc = "start"
    /\ \E h \in Handles \ {-1}, r \in MemRefs \ {0}, b \in BusAddrs \ {ALL_ONES},
          g \in Garbage :
        /\ heap' = {"device", "leds"}
        /\ mbox' = MboxOf(h, r, b, "mapped")
        /\ vc' = VcOf(h, r, "mapped")
        /\ pcm_raw' = pcm_raw_init([i \in 0 .. WordCount(count, freq) + 1 |-> g],
                                   WordCount(count, freq))
        /\ dma_cb_addr' = b
    /\ dma_cb' = NoCb
    /\ maps' = FirstWindows(4)
    /\ leds' = [i \in 1 .. count |-> 0]
    /\ strip_type' = IF strip_type = 0 THEN WS2811_STRIP_RGB ELSE strip_type
    /\ pc' = "s_pcm_off" /\ ctx' = "init" /\ ret' = 0 /\ lastOp' = "none"
    /\ UNCHANGED <<count, freq, invert, brightness, hwVars, histVars, fault,
                   calc, traceVars>>

\* setup_pcm, lines 239..294, with stop_pcm, lines 215..230: one step per
\* register access

SetupPcs == {"s_pcm_off", "s_clk_kill", "s_busy", "s_div", "s_src", "s_enab",
             "s_wait_busy", "s_pcm_en", "s_mode", "s_txc", "s_txclr",
             "s_dmaen", "s_dreq", "s_cb"}

SetupStep(from, to) ==
    /\ pc = from /\ pc' = to
    /\ UNCHANGED <<ctx, ret, lastOp, cfgVars, chanVars, resVars, pcm_raw,
                   dma, histVars, fault, calc>>

\* stop_pcm, line 222: pcm->cs = 0
SetupPcmOff ==
    /\ SetupStep("s_pcm_off", "s_clk_kill")
    /\ pcm' = [pcm EXCEPT !.en = FALSE, !.txon = FALSE, !.dmaen = FALSE]
    /\ UNCHANGED <<clk, traceVars>>

\* stop_pcm, line 226: cm_pcm->ctl = CM_PCM_CTL_PASSWD | CM_PCM_CTL_KILL
SetupClkKill ==
    /\ SetupStep("s_clk_kill", "s_busy")
    /\ clk' = [clk EXCEPT !.enab = FALSE]
    /\ UNCHANGED <<pcm, traceVars>>

SetupClkIdle_NoPoll ==
    /\ SetupStep("s_busy", "s_div")
    /\ stopSeq' = "done"
    /\ UNCHANGED <<pcm, clk, regs, calls>>

\* stop_pcm, line 228: while (cm_pcm->ctl & CM_PCM_CTL_BUSY) ;
SetupClkIdle ==
    /\ ~clk.busy
    /\ SetupStep("s_busy", "s_div")
    /\ stopSeq' = "done"
    /\ UNCHANGED <<pcm, clk, regs, calls>>

\* the stop sequence's standing after a configuration write
AfterConfig(st) == IF st = "none" THEN "none" ELSE "used"

\* the stop sequence's standing after a write that enables the clock or the
\* PCM: a stop nothing was configured after is void
AfterEnable(st) == IF st = "used" THEN "used" ELSE "none"

\* line 253: cm_pcm->div = CM_PCM_DIV_PASSWD | CM_PCM_DIV_DIVI(OSC_FREQ / (3 * freq))
SetupClkDiv ==
    /\ SetupStep("s_div", "s_src")
    /\ clk' = [clk EXCEPT !.divi = OSC_FREQ \div (3 * freq)]
    /\ regs' = regs \cup {"cm.div"}
    /\ stopSeq' = AfterConfig(stopSeq)
    /\ UNCHANGED <<pcm, calls>>

\* line 254: cm_pcm->ctl = CM_PCM_CTL_PASSWD | CM_PCM_CTL_SRC_OSC
SetupClkSrc ==
    /\ SetupStep("s_src", "s_enab")
    /\ clk' = [clk EXCEPT !.enab = FALSE]
    /\ regs' = regs \cup {"cm.ctl"}
    /\ stopSeq' = AfterConfig(stopSeq)
    /\ UNCHANGED <<pcm, calls>>

\* line 255: cm_pcm->ctl = CM_PCM_CTL_PASSWD | CM_PCM_CTL_SRC_OSC | CM_PCM_CTL_ENAB
SetupClkEnab ==
    /\ SetupStep("s_enab", "s_wait_busy")
    /\ clk' = [clk EXCEPT !.enab = TRUE]
    /\ stopSeq' = AfterEnable(stopSeq)
    /\ UNCHANGED <<pcm, regs, calls>>

\* line 257: while (!(cm_pcm->ctl & CM_PCM_CTL_BUSY)) ;
SetupClkBusy ==
    /\ clk.busy
    /\ SetupStep("s_wait_busy", "s_pcm_en")
    /\ UNCHANGED <<pcm, clk, traceVars>>

\* line 266: pcm->cs = RPI_PCM_CS_EN
SetupPcmEn ==
    /\ SetupStep("s_pcm_en", "s_mode")
    /\ pcm' = [pcm EXCEPT !.en = TRUE, !.txon = FALSE, !.dmaen = FALSE]
    /\ stopSeq' = AfterEnable(stopSeq)
    /\ UNCHANGED <<clk, regs, calls>>

\* line 267: pcm->mode = RPI_PCM_MODE_FLEN(31) | RPI_PCM_MODE_FSLEN(1)
SetupPcmMode ==
    /\ SetupStep("s_mode", "s_txc")
    /\ regs' = regs \cup {"pcm.mode"}
    /\ stopSeq' = AfterConfig(stopSeq)
    /\ UNCHANGED <<pcm, clk, calls>>

\* line 269: pcm->txc = CH1WEX | CH1EN | CH1POS(0) | CH1WID(8)
SetupPcmTxc ==
    /\ SetupStep("s_txc", "s_txclr")
    /\ regs' = regs \cup {"pcm.txc"}
    /\ stopSeq' = AfterConfig(stopSeq)
    /\ UNCHANGED <<pcm, clk, calls>>

\* line 271: pcm->cs |= RPI_PCM_CS_TXCLR, the transmit FIFO is emptied
SetupPcmTxclr ==
    /\ SetupStep("s_txclr", "s_dmaen")
    /\ pcm' = [pcm EXCEPT !.txe = TRUE]
    /\ UNCHANGED <<clk, traceVars>>

\* line 273: pcm->cs |= RPI_PCM_CS_DMAEN
SetupPcmDmaen ==
    /\ SetupStep("s_dmaen", "s_dreq")
    /\ pcm' = [pcm EXCEPT !.dmaen = TRUE]
    /\ UNCHANGED <<clk, traceVars>>

\* line 274: pcm->dreq = RPI_PCM_DREQ_TX(0x3F) | RPI_PCM_DREQ_TX_PANIC(0x10)
SetupPcmDreq ==
    /\ SetupStep("s_dreq", "s_cb")
    /\ regs' = regs \cup {"pcm.dreq"}
    /\ stopSeq' = AfterConfig(stopSeq)
    /\ UNCHANGED <<pcm, clk, calls>>

\* lines 276..293 and 514: the descriptor is filled in, dma->cs = 0,
\* setup_pcm returns 0 and so does ws2811_init
InitOk ==
    /\ pc = "s_cb"
    /\ dma_cb' = DescriptorOf(mbox.bus_addr)
    /\ dma' = [dma EXCEPT !.active = FALSE]
    /\ pc' = "idle" /\ ctx' = "none" /\ ret' = 0 /\ lastOp' = "init"
    /\ UNCHANGED <<cfgVars, chanVars, heap, mbox, vc, maps, dma_cb_addr,
                   pcm_raw, pcm, clk, histVars, fault, calc, traceVars>>

---------------------------------------------------------------------------
(* ws2811_wait, lines 550..567.  Every read of the volatile dma->cs is a   *)
(* step of its own, so the DMA engine can move between two reads.          *)

WaitPcs == {"w_active", "w_error", "w_check"}

Min(a, b) == IF a < b THEN a ELSE b

\* entering ws2811_wait from the function f
EnterWait(f) ==
    /\ pc' = "w_active" /\ ctx' = f
    /\ ret' = 0 /\ lastOp' = "none"
    /\ delays' = 0
    /\ waitEntry' = [active |-> dma.active, error |-> dma.error]

NoEntry == [active |-> FALSE, error |-> FALSE]

\* an API function returns r to the caller
Return(f, r) ==
    /\ pc' = "idle" /\ ctx' = "none" /\ ret' = r /\ lastOp' = f
    /\ delays' = 0 /\ waitEntry' = NoEntry /\ started' = FALSE

\* the caller calls ws2811_wait
WaitCall ==
    /\ pc = "idle"
    /\ EnterWait("wait")
    /\ UNCHANGED <<cfgVars, chanVars, resVars, pcm_raw, hwVars,
                   started, fault, calc, traceVars>>

\* line 554: while ((dma->cs & RPI_DMA_CS_ACTIVE) && ...
WaitTestActive ==
    /\ pc = "w_active"
    /\ pc' = IF dma.active THEN "w_error" ELSE "w_check"
    /\ UNCHANGED <<ctx, ret, lastOp, cfgVars, chanVars, resVars, pcm_raw,
                   hwVars, histVars, fault, calc, traceVars>>

\* lines 555..558: ... && !(dma->cs & RPI_DMA_CS_ERROR)) usleep(10);
WaitTestError ==
    /\ pc = "w_error"
    /\ IF dma.error
       THEN pc' = "w_check" /\ delays' = delays
       ELSE pc' = "w_active" /\ delays' = Min(delays + 1, MaxPolls)
    /\ UNCHANGED <<ctx, ret, lastOp, cfgVars, chanVars, resVars, pcm_raw,
                   hwVars, waitEntry, started, fault, calc, traceVars>>

WaitResult_ByActive == IF dma.active THEN -1 ELSE 0

\* lines 560..566: -1 if dma->cs has RPI_DMA_CS_ERROR, else 0
WaitResult == IF dma.error THEN -1 ELSE 0

\* ws2811_wait returns to the caller: the result is the API's result
WaitReturn ==
    /\ pc = "w_check" /\ ctx = "wait"
    /\ Return("wait", WaitResult)
    /\ UNCHANGED <<cfgVars, chanVars, resVars, pcm_raw, hwVars, fault, calc, traceVars>>

---------------------------------------------------------------------------
(* ws2811_render, lines 577..638, and dma_start, lines 303..324.           *)

DsPcs == {"ds_reset", "ds_intend", "ds_conblk", "ds_debug", "ds_active",
          "ds_txon"}

\* the LED arrays a caller can have filled in
LedArrays == [1 .. count -> Colors]

\* the caller has set the LED values and the brightness and calls
\* ws2811_render: lines 579..627 encode into pcm_raw, line 630 enters the wait
RenderCall(ls, b) ==
    /\ pc = "idle"
    /\ leds' = ls /\ brightness' = b
    /\ pcm_raw' = Encode(pcm_raw, ls, count, strip_type, b, invert)
    /\ started' = FALSE
    /\ EnterWait("render")
    /\ UNCHANGED <<cfgVars, resVars, hwVars, fault, calc, traceVars>>

Render == \E ls \in LedArrays, b \in Brights : RenderCall(ls, b)

\* lines 630..633: the wait failed, render returns -1
RenderWaitFailed ==
    /\ pc = "w_check" /\ ctx = "render"
    /\ WaitResult # 0
    /\ Return("render", -1)
    /\ UNCHANGED <<cfgVars, chanVars, resVars, pcm_raw, hwVars, fault, calc, traceVars>>

RenderWaitOk_Unchecked ==
    /\ pc = "w_check" /\ ctx = "render"
    /\ pc' = "ds_reset"
    /\ UNCHANGED <<ctx, ret, lastOp, cfgVars, chanVars, resVars, pcm_raw,
                   hwVars, histVars, fault, calc, traceVars>>

\* line 635: the wait succeeded, dma_start is entered
RenderWaitOk ==
    /\ pc = "w_check" /\ ctx = "render"
    /\ WaitResult = 0
    /\ pc' = "ds_reset"
    /\ UNCHANGED <<ctx, ret, lastOp, cfgVars, chanVars, resVars, pcm_raw,
                   hwVars, histVars, fault, calc, traceVars>>

DsStep(from, to) ==
    /\ pc = from /\ pc' = to
    /\ UNCHANGED <<ctx, ret, lastOp, cfgVars, chanVars, resVars, pcm_raw,
                   clk, delays, waitEntry, fault, calc, traceVars>>

\* line 310: dma->cs = RPI_DMA_CS_RESET
DmaStartReset ==
    /\ DsStep("ds_reset", "ds_intend")
    /\ dma' = [active |-> FALSE, error |-> FALSE, conblk_ad |-> 0]
    /\ UNCHANGED <<pcm, started>>

\* line 313: dma->cs = RPI_DMA_CS_INT | RPI_DMA_CS_END (write 1 to clear)
DmaStartClearEnd ==
    /\ DsStep("ds_intend", "ds_conblk")
    /\ dma' = [dma EXCEPT !.active = FALSE]
    /\ UNCHANGED <<pcm, started>>

\* line 316: dma->conblk_ad = dma_cb_addr
DmaStartConblk ==
    /\ DsStep("ds_conblk", "ds_debug")
    /\ dma' = [dma EXCEPT !.conblk_ad = dma_cb_addr]
    /\ UNCHANGED <<pcm, started>>

\* line 317: dma->debug = 7, clears the error flags
DmaStartDebug ==
    /\ DsStep("ds_debug", "ds_active")
    /\ dma' = [dma EXCEPT !.error = FALSE]
    /\ UNCHANGED <<pcm, started>>

\* lines 318..321: dma->cs = ... | RPI_DMA_CS_ACTIVE
DmaStartActive ==
    /\ DsStep("ds_active", "ds_txon")
    /\ dma' = [dma EXCEPT !.active = TRUE]
    /\ started' = TRUE
    /\ UNCHANGED <<pcm, calls>>

\* line 323 and line 637: pcm->cs |= RPI_PCM_CS_TXON; render returns 0
DmaStartTxon ==
    /\ pc = "ds_txon"
    /\ pcm' = [pcm EXCEPT !.txon = TRUE]
    /\ Return("render", 0)
    /\ UNCHANGED <<cfgVars, chanVars, resVars, pcm_raw, dma, clk, fault, calc, traceVars>>

---------------------------------------------------------------------------
(* ws2811_fini, lines 529..541, with stop_pcm, lines 215..230.             *)

\* the caller calls ws2811_fini; line 533 enters the wait
FiniCall ==
    /\ pc = "idle"
    /\ EnterWait("fini")
    /\ UNCHANGED <<cfgVars, chanVars, resVars, pcm_raw, hwVars,
                   started, fault, calc, traceVars>>

\* line 533: the result of ws2811_wait is dropped
FiniWaitDone ==
    /\ pc = "w_check" /\ ctx = "fini"
    /\ pc' = "f_txe"
    /\ UNCHANGED <<ctx, ret, lastOp, cfgVars, chanVars, resVars, pcm_raw,
                   hwVars, histVars, fault, calc, traceVars>>

\* line 534: while (!(pcm->cs & RPI_PCM_CS_TXE)) ;
FiniTxEmpty ==
    /\ pc = "f_txe" /\ pcm.txe
    /\ pc' = "f_pcm_off"
    /\ UNCHANGED <<ctx, ret, lastOp, cfgVars, chanVars, resVars, pcm_raw,
                   hwVars, histVars, fault, calc, traceVars>>

\* stop_pcm, line 222: pcm->cs = 0
StopPcmOff ==
    /\ pc = "f_pcm_off"
    /\ pcm' = [pcm EXCEPT !.en = FALSE, !.txon = FALSE, !.dmaen = FALSE]
    /\ pc' = "f_clk_kill"
    /\ UNCHANGED <<ctx, ret, lastOp, cfgVars, chanVars, resVars, pcm_raw,
                   dma, clk, histVars, fault, calc, traceVars>>

\* stop_pcm, line 226: cm_pcm->ctl = CM_PCM_CTL_PASSWD | CM_PCM_CTL_KILL
StopClkKill ==
    /\ pc = "f_clk_kill"
    /\ clk' = [clk EXCEPT !.enab = FALSE]
    /\ pc' = "f_busy"
    /\ UNCHANGED <<ctx, ret, lastOp, cfgVars, chanVars, resVars, pcm_raw,
                   dma, pcm, histVars, fault, calc, traceVars>>

\* stop_pcm, line 228: while (cm_pcm->ctl & CM_PCM_CTL_BUSY) ;
StopClkIdle ==
    /\ pc = "f_busy" /\ ~clk.busy
    /\ pc' = "f_release"
    /\ stopSeq' = "done"
    /\ UNCHANGED <<ctx, ret, lastOp, cfgVars, chanVars, resVars, pcm_raw,
                   hwVars, histVars, fault, regs, calls, calc>>

FiniRelease_KeepsWindows ==
    /\ pc = "f_release"
    /\ LET c == ws2811_cleanup(heap, vc, mbox)
       IN  /\ heap' = c.heap /\ vc' = c.vc /\ mbox' = c.mbox
           /\ calls' = calls \o c.made
    /\ maps' = maps \ {"dma"}
    /\ leds' = <<>>
    /\ pc' = "finished" /\ ctx' = "none" /\ ret' = 0 /\ lastOp' = "fini"
    /\ delays' = 0 /\ waitEntry' = NoEntry /\ started' = FALSE
    /\ UNCHANGED <<cfgVars, brightness, dma_cb_addr, dma_cb,
                   pcm_raw, hwVars, fault, calc, stopSeq, regs>>

\* lines 538..540: unmap_registers, then ws2811_cleanup; fini returns
FiniRelease ==
    /\ pc = "f_release"
    /\ LET c == ws2811_cleanup(heap, vc, mbox)
       IN  /\ heap' = c.heap /\ vc' = c.vc /\ mbox' = c.mbox
           /\ calls' = calls \o c.made
    /\ maps' = {}
    /\ leds' = <<>>
    /\ pc' = "finished" /\ ctx' = "none" /\ ret' = 0 /\ lastOp' = "fini"
    /\ delays' = 0 /\ waitEntry' = NoEntry /\ started' = FALSE
    /\ UNCHANGED <<cfgVars, brightness, dma_cb_addr, dma_cb,
                   pcm_raw, hwVars, fault, calc, stopSeq, regs>>

---------------------------------------------------------------------------
(* The hardware beside the caller.                                         *)

HwStep ==
    UNCHANGED <<pc, ctx, ret, lastOp, cfgVars, chanVars, resVars, pcm_raw,
                histVars, fault, calc, traceVars>>

\* the DMA engine has moved the last word to the PCM FIFO: ACTIVE clears
\* itself
DmaComplete ==
    /\ dma.active /\ dma.conblk_ad # 0
    /\ dma' = [dma EXCEPT !.active = FALSE]
    /\ pcm' = [pcm EXCEPT !.txe = FALSE]
    /\ HwStep /\ UNCHANGED clk

\* the DMA engine detects an error during the transfer: ERROR is set, and
\* the channel either stops (ACTIVE clear) or stays ACTIVE
DmaFault ==
    /\ dma.active /\ ~dma.error
    /\ \E a \in BOOLEAN : dma' = [dma EXCEPT !.error = TRUE, !.active = a]
    /\ HwStep /\ UNCHANGED <<pcm, clk, calls>>

\* the PCM has shifted out the last word of its FIFO: TXE is set
PcmDrain ==
    /\ ~pcm.txe /\ pcm.en /\ pcm.txon /\ clk.busy
    /\ pcm' = [pcm EXCEPT !.txe = TRUE]
    /\ HwStep /\ UNCHANGED <<dma, clk>>

\* the enabled clock generator has started: BUSY is set
ClkStart ==
    /\ clk.enab /\ ~clk.busy
    /\ clk' = [clk EXCEPT !.busy = TRUE]
    /\ HwStep /\ UNCHANGED <<dma, pcm>>

\* the killed clock generator has stopped: BUSY clears
ClkStop ==
    /\ ~clk.enab /\ clk.busy
    /\ clk' = [clk EXCEPT !.busy = FALSE]
    /\ HwStep /\ UNCHANGED <<dma, pcm>>

---------------------------------------------------------------------------
(* The driver with its hardware.                                           *)

Caller ==
    \/ InitFailDetect \/ InitFailMalloc \/ InitFailMboxOpen
    \/ InitFailMemAlloc \/ InitFailMemLock \/ InitFailLeds
    \/ InitCrashNullMap \/ InitFailMap \/ InitFailGpio
    \/ InitSetup \/ SetupPcmOff \/ SetupClkKill \/ SetupClkIdle
    \/ SetupClkDiv \/ SetupClkSrc \/ SetupClkEnab \/ SetupClkBusy
    \/ SetupPcmEn \/ SetupPcmMode \/ SetupPcmTxc \/ SetupPcmTxclr
    \/ SetupPcmDmaen \/ SetupPcmDreq \/ InitOk
    \/ WaitCall \/ WaitTestActive \/ WaitTestError \/ WaitReturn
    \/ Render \/ RenderWaitFailed \/ RenderWaitOk
    \/ DmaStartReset \/ DmaStartClearEnd \/ DmaStartConblk \/ DmaStartDebug
    \/ DmaStartActive \/ DmaStartTxon
    \/ FiniCall \/ FiniWaitDone \/ FiniTxEmpty \/ StopPcmOff \/ StopClkKill
    \/ StopClkIdle \/ FiniRelease

Hardware == DmaComplete \/ DmaFault \/ PcmDrain \/ ClkStart \/ ClkStop

Next == Caller \/ Hardware

Spec == Init /\ [][Next]_vars

\* The caller that keeps retrying: a call that has begun runs on, render is
\* called again and again, a running transfer completes, the FIFO drains
\* and a killed clock stops.  A DMA error is never bound to happen.
InCall ==
    \/ SetupPcmOff \/ SetupClkKill \/ SetupClkIdle
    \/ SetupClkDiv \/ SetupClkSrc \/ SetupClkEnab \/ SetupClkBusy
    \/ SetupPcmEn \/ SetupPcmMode \/ SetupPcmTxc \/ SetupPcmTxclr
    \/ SetupPcmDmaen \/ SetupPcmDreq \/ InitOk
    \/ WaitTestActive \/ WaitTestError \/ WaitReturn
    \/ RenderWaitFailed \/ RenderWaitOk
    \/ DmaStartReset \/ DmaStartClearEnd \/ DmaStartConblk \/ DmaStartDebug
    \/ DmaStartActive \/ DmaStartTxon
    \/ FiniWaitDone \/ FiniTxEmpty \/ StopPcmOff \/ StopClkKill
    \/ StopClkIdle \/ FiniRelease

\* one configuration is enough to follow a retry: one LED, RGB, not inverted
InitRetry == Init /\ count = 1 /\ strip_type = 0 /\ invert = 0 /\ pcm = PcmLive

FairSpec ==
    /\ InitRetry /\ [][Next]_vars
    /\ WF_vars(InCall) /\ []<>(ctx = "render")
    /\ WF_vars(DmaComplete) /\ WF_vars(PcmDrain)
    /\ WF_vars(ClkStart) /\ WF_vars(ClkStop)

\* The caller that finalizes: a call that has begun runs on, and the hardware
\* makes progress (a running transfer completes unless it faults first, the
\* FIFO drains, a killed clock stops).  Whether and when render, wait and
\* fini are called is left to the caller.
FiniSpec ==
    /\ InitRetry /\ [][Next]_vars
    /\ WF_vars(InCall)
    /\ WF_vars(DmaComplete) /\ WF_vars(PcmDrain)
    /\ WF_vars(ClkStart) /\ WF_vars(ClkStop)

---------------------------------------------------------------------------
(* The pure functions on their own: the inputs are drawn in the initial    *)
(* state, one action applies the function.                                 *)

InitPure ==
    InitDevice /\ count = 0 /\ strip_type = 0 /\ invert = 0 /\ pcm = PcmOff

PureStep ==
    UNCHANGED <<pc, ctx, ret, lastOp, cfgVars, chanVars, resVars, pcm_raw,
                hwVars, histVars, fault, traceVars>>

SizeFreqs ==
    {1, 6060, 6061, 800000, 26030104, 26030105, 40000000, 2147483647}
        \cup {k * 500000 : k \in 1 .. MaxFreqSteps}

InitSizing ==
    /\ InitPure
    /\ calc \in [op : {"size"}, n : 0 .. MaxSizeLeds, f : SizeFreqs, out : {-1}]

\* requiredBytes = PCM_BYTE_COUNT(ledCount, tickRate)
ApplySize ==
    /\ calc.op = "size" /\ calc.out = -1
    /\ calc' = [calc EXCEPT !.out = PCM_BYTE_COUNT(calc.n, calc.f)]
    /\ PureStep

SpecSizing == InitSizing /\ [][ApplySize]_vars

InitScale ==
    /\ InitPure
    /\ calc \in [op : {"scale"}, v : 0 .. 255, b : 0 .. 255, out : {-1}]

\* the gamma-table index of a channel value under a brightness
ApplyScale ==
    /\ calc.op = "scale" /\ calc.out = -1
    /\ calc' = [calc EXCEPT !.out = Scaled(calc.v, calc.b)]
    /\ PureStep

SpecScale == InitScale /\ [][ApplyScale]_vars

\* tick rates with a reset latch of 0 bits, of 1 bit, the usual one, and one
\* whose product 55 * (freq * 3) wraps around
ReachFreqs == {1, 6061, 800000, 26030105}

InitReach ==
    /\ InitPure
    /\ calc \in [op : {"reach"}, n : 0 .. MaxReachLeds, f : ReachFreqs, out : {-1}]

\* the words the encoding loop of ws2811_render stores to: it starts at
\* wordpos 0, bitpos 31 and moves on bit by bit, so they are the words below
\* its final wordpos, and that word too if bits of it were written
WordsWritten(n) ==
    LET e == LedLoop([buf |-> [i \in 0 .. 3 * n + 1 |-> {}],
                      wordpos |-> 0, bitpos |-> 31],
                     [i \in 1 .. n |-> 0], n, WS2811_STRIP_RGB, 255, 0, 1)
    IN  e.wordpos + (IF e.bitpos < 31 THEN 1 ELSE 0)

ApplyReach ==
    /\ calc.op = "reach" /\ calc.out = -1
    /\ calc' = [calc EXCEPT !.out = WordsWritten(calc.n)]
    /\ PureStep

SpecReach == InitReach /\ [][ApplyReach]_vars

---------------------------------------------------------------------------
(* The claims.                                                             *)

\* bit p of the buffer's bit stream: bit 31 - p mod 32 of word p div 32
StreamBit(p) == IF (31 - (p % 32)) \in pcm_raw[p \div 32] THEN 1 ELSE 0

\* C1: render writes the DMA buffer only while no transfer is in flight:
\* whenever a render step changes the buffer, the DMA ACTIVE bit is clear.
C1_NoWriteWhileInFlight ==
    [][(ctx' = "render" /\ pcm_raw' # pcm_raw) => ~dma.active]_vars

\* C2: render enters dma_start only after its wait saw ACTIVE and ERROR
\* clear, the channel is idle until dma_start sets ACTIVE, ACTIVE is set by
\* dma_start alone, and a render that returns -1 has found ERROR set and has
\* started no transfer.
C2_StartOnlyAfterWaitOk ==
    /\ [](pc = "ds_reset" => ~dma.active /\ ~dma.error)
    /\ [](pc \in DsPcs \ {"ds_txon"} => ~dma.active /\ ~started)
    /\ [][(~dma.active /\ dma'.active) => (pc = "ds_active" /\ ctx = "render")]_vars
    /\ [][(ctx = "render" /\ pc' = "idle" /\ ret' = -1)
            => (dma.error /\ ~started /\ dma' = dma)]_vars

\* a later render has reached dma_start after its wait polled an active
\* transfer to its end
C2_Witness ==
    pc = "ds_reset" /\ waitEntry.active /\ delays > 0 /\ pcm.txon

\* C3: when fini unmaps and frees the DMA-visible allocation, the DMA
\* channel is not active.
C3_IdleAtRelease == (pc = "f_release" => ~dma.active)

\* the 3-bit pattern of a data bit: 110 for 1 and 100 for 0, swapped when
\* the inversion flag is set
PatternOf(bit, inv) ==
    IF (bit = 1) = (inv = 0) THEN <<1, 1, 0>> ELSE <<1, 0, 0>>

\* C4: after render has encoded, for pixel i, channel j and bit k the
\* symbol sits at stream positions 72*i + 24*j + 3*(7-k) .. +2 and is the
\* pattern of bit k of the gamma-corrected channel byte.
C4_SymbolLayout ==
    (ctx = "render" \/ (pc = "idle" /\ lastOp = "render")) =>
        \A i \in 0 .. count - 1, j \in 0 .. 2, k \in 0 .. 7, m \in 0 .. 2 :
            LET byte == ws281x_gamma(
                            Scaled((leds[i + 1] \div (2 ^ ShiftOf(strip_type, j + 1))) % 256,
                                   brightness))
            IN  StreamBit(72 * i + 24 * j + 3 * (7 - k) + m)
                    = PatternOf((byte \div (2 ^ k)) % 2, invert)[m + 1]

\* two inverted pixels are encoded, and the data bit of the symbol lying
\* across words 1 and 2 (positions 63..65) is a one
C4_Witness ==
    /\ pc = "idle" /\ lastOp = "render" /\ ret = 0
    /\ count = 2 /\ invert = 1
    /\ StreamBit(63) = 1 /\ StreamBit(64) = 1 /\ StreamBit(65) = 0

\* C5: requiredBytes is a multiple of 4 and greater than 9 * ledCount (so
\* not zero for ledCount = 0), where 55 * 3 * tickRate fits in 32 bits.
C5_SizeAboveData ==
    (calc.op = "size" /\ calc.out # -1 /\ calc.f <= 26030104) =>
        /\ calc.out % 4 = 0
        /\ calc.out > 9 * calc.n
        /\ calc.out > 0

\* sized for no LED at all at 800 kHz: the reset latch alone
C5_Witness ==
    calc.op = "size" /\ calc.n = 0 /\ calc.f = 800000 /\ calc.out = 24

\* C6: when a transfer is started, every stream bit from 72 * ledCount to
\* 8 * requiredBytes - 1 is zero.
C6_TrailingZero ==
    started =>
        \A p \in 72 * count .. 8 * PCM_BYTE_COUNT(count, freq) - 1 :
            StreamBit(p) = 0

\* C7: wait returns -1 exactly if ERROR is set when its loop exits (the bit
\* does not change between the loop's exit and the return, nor before the
\* caller's next call); entered with ERROR set it returns -1, entered with
\* ACTIVE and ERROR clear it returns 0 without a delay; its steps write
\* neither the buffer, the descriptor nor a register.
C7_WaitResult ==
    /\ [][(pc = "w_check" /\ ctx = "wait" /\ pc' = "idle")
            => (ret' = -1) = dma.error]_vars
    /\ [][pc = "w_check" => dma'.error = dma.error]_vars
    /\ []((pc = "idle" /\ lastOp = "wait") => ((ret = -1) = dma.error))
    /\ [][(ctx = "wait" /\ pc' = "idle" /\ waitEntry.error) => ret' = -1]_vars
    /\ [][(ctx = "wait" /\ pc' = "idle" /\ ~waitEntry.active /\ ~waitEntry.error)
            => (ret' = 0 /\ delays = 0)]_vars
    /\ [][(ctx = "wait" /\ pc' # pc)
            => UNCHANGED <<pcm_raw, dma_cb, dma, pcm, clk>>]_vars

\* wait has returned -1 with ERROR set and ACTIVE clear
C7_Witness ==
    pc = "idle" /\ lastOp = "wait" /\ ret = -1 /\ dma.error /\ ~dma.active

\* C8: after render has returned -1 for a DMA error, a caller that goes on
\* calling render (and does not finalize) gets a render that returns 0.
C8_RetrySucceeds ==
    (pc = "idle" /\ lastOp = "render" /\ ret = -1)
        ~> ((pc = "idle" /\ lastOp = "render" /\ ret = 0) \/ ctx = "fini")

\* C9: when init fails at mbox_open, mem_alloc or mem_lock, the device
\* record is freed, no memory reference stays allocated and no mailbox
\* handle stays open.
C9_RollbackOnAllocFailure ==
    (pc = "init_failed" /\ fault \in {"mbox_open", "mem_alloc", "mem_lock"}) =>
        /\ "device" \notin heap
        /\ vc.alloc = {}
        /\ vc.open = {}

\* C10: the scaled value is in 0..255, is at most the channel value, and
\* equals the channel value at brightness 255.
C10_ScaledInRange ==
    (calc.op = "scale" /\ calc.out # -1) =>
        /\ calc.out \in 0 .. 255
        /\ calc.out <= calc.v
        /\ (calc.b = 255 => calc.out = calc.v)

\* channel value 255 at brightness 255 has been scaled to 255
C10_Witness ==
    calc.op = "scale" /\ calc.v = 255 /\ calc.b = 255 /\ calc.out = 255

\* everything ws2811_init acquired is gone: no register window mapped, the
\* allocation unmapped, unlocked and freed, the mailbox handle closed, the
\* LED buffer and the device record freed
Released ==
    /\ maps = {}
    /\ vc = NoVc
    /\ mbox.handle = -1
    /\ heap = {}

\* C11: once fini is called (channel idle, transfer in flight or ERROR
\* flagged), it returns, given that the hardware makes progress; when it has
\* returned the four register windows are unmapped, the allocation is
\* unmapped, unlocked and freed, the handle is closed and the LED buffer
\* is freed.
C11_FiniReturns ==
    /\ (ctx = "fini") ~> (pc = "finished" /\ Released)
    /\ [](pc = "finished" => Released)

\* fini has returned although the DMA channel had flagged an error and was
\* still active when fini was called
C11_Witness ==
    pc = "finished" /\ lastOp = "fini" /\ dma.error /\ Released

\* C12: after an init that failed (in particular one that failed while
\* mapping the DMA, PCM, GPIO or clock window) no register window is mapped.
C12_NoWindowAfterFailedInit ==
    pc = "init_failed" => maps = {}

\* C13: when mapmem returns NULL for the DMA buffer, init returns -1 with
\* everything released, and nothing is stored through the buffer or the
\* descriptor pointer (a store through them ends the process).
C13_NullBufferMapRollsBack ==
    fault = "mapmem" =>
        /\ pc = "init_failed" /\ ret = -1
        /\ heap = {} /\ vc = NoVc

\* C14: in every dma_start, from the reset of the DMA channel until ACTIVE
\* has been set with the descriptor address loaded, the PCM's TXON bit is
\* clear.
C14_TxonClearWhileArming ==
    pc \in {"ds_intend", "ds_conblk", "ds_debug", "ds_active"} => ~pcm.txon

\* the labels whose step writes the clock divider, the clock source/enable
\* or the PCM's mode, channel or threshold register
ConfigPcs == {"s_div", "s_src", "s_enab", "s_mode", "s_txc", "s_dreq"}

\* C15: every write that reconfigures the clock divider, the clock
\* source/enable or the PCM mode, channel and threshold registers follows a
\* stop sequence that ran to its end (PCM off, clock killed, clock seen not
\* busy) with nothing enabled between that stop and the first such write;
\* these registers are written nowhere else.
C15_ConfigOnlyAfterStop ==
    /\ [][(pc \in ConfigPcs /\ pc' # pc) => stopSeq \in {"done", "used"}]_vars
    /\ [](stopSeq = "done"
            => (~pcm.en /\ ~pcm.txon /\ ~clk.enab /\ ~clk.busy))
    /\ [][(regs' # regs \/ clk'.divi # clk.divi) => pc \in ConfigPcs]_vars

\* init has returned 0 with the five registers configured after a stop
C15_Witness ==
    /\ pc = "idle" /\ lastOp = "init" /\ ret = 0
    /\ stopSeq = "used"
    /\ regs = {"cm.div", "cm.ctl", "pcm.mode", "pcm.txc", "pcm.dreq"}
    /\ clk.enab /\ clk.busy /\ pcm.en

\* the four release steps in reverse order of acquisition, on one memory
\* reference and a valid handle
ReleaseOrder(cs) ==
    /\ Len(cs) = 4
    /\ cs[1].op = "unmapmem" /\ cs[2].op = "mem_unlock"
    /\ cs[3].op = "mem_free" /\ cs[4].op = "mbox_close"
    /\ cs[2].arg = cs[3].arg /\ cs[3].arg # 0
    /\ cs[4].arg # -1

\* C16: when anything of the DMA-visible allocation has been released, the
\* release consisted of unmap, unlock, free, close in this order, each once,
\* on a valid handle, and the handle is marked invalid afterwards.
C16_ReleaseInReverseOrder ==
    calls # <<>> => (ReleaseOrder(calls) /\ mbox.handle = -1)

\* C17: after pcm_raw_init every word 0 .. wordcount-1 of the buffer is
\* zero, and the word behind the buffer (index wordcount) still holds what
\* the fresh memory held, as the word after it does.
C17_BufferZeroed ==
    pc \in SetupPcs =>
        /\ \A i \in 0 .. WordCount(count, freq) - 1 : pcm_raw[i] = {}
        /\ pcm_raw[WordCount(count, freq)] = pcm_raw[WordCount(count, freq) + 1]

\* C18: the words render writes all have an index below requiredBytes / 4,
\* and for ledCount = 0 render writes no word.
C18_WritesInsideBuffer ==
    (calc.op = "reach" /\ calc.out # -1) =>
        /\ calc.out <= WordCount(calc.n, calc.f)
        /\ (calc.n = 0 => calc.out = 0)

\* 7 LEDs at a tick rate with no reset bit: render writes all 16 words of
\* the 64-byte buffer
C18_Witness ==
    /\ calc.op = "reach" /\ calc.n = 7 /\ calc.f = 1
    /\ calc.out = 16 /\ WordCount(7, 1) = 16

\* C19: for every ledCount and tickRate the sized buffer has room for the
\* pixel data and the reset latch: 8 * requiredBytes - 72 * ledCount is at
\* least (55 * 3 * tickRate) / 1000000, the quotient taken over the integers
\* (here split at 1000000 to stay in the checker's range).
C19_RoomForResetLatch ==
    (calc.op = "size" /\ calc.out # -1) =>
        LET q == calc.f \div 1000000
            r == calc.f % 1000000
            latch == (LED_RESET_uS * 3) * q + ((LED_RESET_uS * 3) * r) \div 1000000
        IN  8 * calc.out - 72 * calc.n >= latch

\* ws2811_init has returned 0 and ws2811_fini has not yet released
Initialized ==
    pc \in ({"idle"} \cup WaitPcs \cup DsPcs
              \cup {"f_txe", "f_pcm_off", "f_clk_kill", "f_busy", "f_release"})

\* C20: after a successful init, and through every later render and wait,
\* the allocation is sized from the descriptor's transfer length plus the
\* descriptor, rounded up to pages; the source address is the allocation's
\* bus address plus the descriptor size; the bytes from source to
\* source + length lie inside the allocation and behind the descriptor.
C20_DescriptorCoversBuffer ==
    /\ [](Initialized =>
            /\ dma_cb.txfr_len > 0
            /\ mbox.size = ((dma_cb.txfr_len + DMA_CB_SIZE + PAGE_SIZE - 1)
                                \div PAGE_SIZE) * PAGE_SIZE
            /\ dma_cb.source_ad = mbox.bus_addr + DMA_CB_SIZE
            /\ dma_cb.source_ad + dma_cb.txfr_len <= mbox.bus_addr + mbox.size
            /\ dma_cb.source_ad >= dma_cb_addr + DMA_CB_SIZE
            /\ dma_cb_addr = mbox.bus_addr)
    /\ [][(Initialized /\ Initialized')
            => (dma_cb' = dma_cb /\ mbox' = mbox /\ dma_cb_addr' = dma_cb_addr)]_vars

\* a render of two LEDs has returned 0: 40 bytes are transferred from the
\* address 32 bytes into the one-page allocation
C20_Witness ==
    /\ pc = "idle" /\ lastOp = "render" /\ ret = 0 /\ count = 2
    /\ dma_cb.txfr_len = 40 /\ mbox.size = 4096
    /\ dma_cb.source_ad = mbox.bus_addr + 32

===========================================================================
